---- MODULE Spec2Model ----
(***************************************************************************)
(* Hardware-access layer of the STM32 full-speed USB device peripheral     *)
(* (src/portable/st/stm32_fsdev/fsdev_common.h): the endpoint control      *)
(* register codec, the buffer-size encoder and the buffer descriptor       *)
(* table.                                                                  *)
(***************************************************************************)
EXTENDS Integers, Naturals, Sequences, FiniteSets, TLC

(***************************************************************************)
(* Bit arithmetic on unsigned integers.                                    *)
(***************************************************************************)
RECURSIVE AndBits(_, _)
AndBits(a, b) ==
  IF a = 0 \/ b = 0 THEN 0
  ELSE (a % 2) * (b % 2) + 2 * AndBits(a \div 2, b \div 2)

\* a & b of two hexadecimal digits, tabulated
AndNibble == [a \in 0 .. 15 |-> [b \in 0 .. 15 |-> AndBits(a, b)]]

\* a & b, digit by digit
RECURSIVE And(_, _)
And(a, b) ==
  IF a = 0 \/ b = 0 THEN 0
  ELSE AndNibble[a % 16][b % 16] + 16 * And(a \div 16, b \div 16)

Or(a, b) == a + b - And(a, b)

Xor(a, b) == a + b - 2 * And(a, b)

\* a & ~b, at any operand width
AndNot(a, b) == a - And(a, b)

\* the range of a uint16_t
U16 == 65536

(***************************************************************************)
(* Endpoint register bit fields (USB_EPnR).  The header that defines them  *)
(* is not part of the sources at hand; the values follow the register      *)
(* layout the specification gives in section 6: address in the low bits,   *)
(* tx status 4-5, tx toggle 6, tx-complete 7, kind 8, type 9-10,           *)
(* rx status 12-13, rx toggle 14, rx-complete 15.  Bit 11 is the read-only *)
(* SETUP flag.  The address field is the four bits below the tx status.    *)
(***************************************************************************)
USB_EP_CTR_RX == 32768
USB_EP_DTOG_RX == 16384
USB_EPRX_STAT == 12288
USB_EP_SETUP == 2048
USB_EP_T_FIELD == 1536
USB_EP_KIND == 256
USB_EP_CTR_TX == 128
USB_EP_DTOG_TX == 64
USB_EPTX_STAT == 48
USB_EPADDR_FIELD == 15

USB_EPREG_MASK ==
  USB_EP_CTR_RX + USB_EP_SETUP + USB_EP_T_FIELD + USB_EP_KIND
    + USB_EP_CTR_TX + USB_EPADDR_FIELD
USB_EP_T_MASK == AndNot(USB_EPREG_MASK, USB_EP_T_FIELD)
USB_EPKIND_MASK == AndNot(USB_EPREG_MASK, USB_EP_KIND)
USB_EPTX_DTOGMASK == Or(USB_EPTX_STAT, USB_EPREG_MASK)
USB_EPRX_DTOGMASK == Or(USB_EPRX_STAT, USB_EPREG_MASK)

\* endpoint types (values of the type field)
USB_EP_BULK == 0
USB_EP_CONTROL == 512
USB_EP_ISOCHRONOUS == 1024
USB_EP_INTERRUPT == 1536
EpTypes == {USB_EP_BULK, USB_EP_CONTROL, USB_EP_ISOCHRONOUS, USB_EP_INTERRUPT}

\* endpoint states (values of the tx status field; the rx values are these
\* shifted to bits 12-13)
USB_EP_TX_DIS == 0
USB_EP_TX_STALL == 16
USB_EP_TX_NAK == 32
USB_EP_TX_VALID == 48
TxStates == {USB_EP_TX_DIS, USB_EP_TX_STALL, USB_EP_TX_NAK, USB_EP_TX_VALID}
USB_EP_RX_DIS == 0
USB_EP_RX_STALL == 4096
USB_EP_RX_NAK == 8192
USB_EP_RX_VALID == 12288
RxStates == {USB_EP_RX_DIS, USB_EP_RX_STALL, USB_EP_RX_NAK, USB_EP_RX_VALID}

(***************************************************************************)
(* What the peripheral stores when software writes w to an endpoint        *)
(* register holding cur: the complete-flags are cleared by a 0 and kept by *)
(* a 1, status and data-toggle bits flip where a 1 is written, SETUP is    *)
(* read-only, address, type and kind are plain read/write.                 *)
(***************************************************************************)
HwToggleBits == USB_EP_DTOG_RX + USB_EPRX_STAT + USB_EP_DTOG_TX + USB_EPTX_STAT
HwPlainBits == USB_EP_T_FIELD + USB_EP_KIND + USB_EPADDR_FIELD
HwClearOnZeroBits == USB_EP_CTR_RX + USB_EP_CTR_TX

HwWrite(cur, w) ==
  And(And(cur, w), HwClearOnZeroBits)
    + And(Xor(cur, w), HwToggleBits)
    + And(cur, USB_EP_SETUP)
    + And(w, HwPlainBits)

(***************************************************************************)
(* Bounds of the model.                                                    *)
(***************************************************************************)
\* the largest bAddr handed to pcd_set_ep_address
MaxAddr == 1

(***************************************************************************)
(* The codec functions: each operator is the value the function hands to   *)
(* pcd_set_endpoint, computed from the value regVal it read.               *)
(***************************************************************************)
pcd_set_ep_address(regVal, bAddr) ==
  Or(Or(And(regVal, USB_EPREG_MASK), bAddr), USB_EP_CTR_RX + USB_EP_CTR_TX)

\* pcd_set_eptype without the re-assertion of the complete-flags
pcd_set_eptype_NoReassert(regVal, wType) ==
  Or(And(regVal, USB_EP_T_MASK), wType)

\* pcd_set_eptype masking with USB_EPREG_MASK, which keeps the old type
pcd_set_eptype_NoMask(regVal, wType) ==
  Or(Or(And(regVal, USB_EPREG_MASK), wType), USB_EP_CTR_RX + USB_EP_CTR_TX)

pcd_set_eptype(regVal, wType) ==
  Or(Or(And(regVal, USB_EP_T_MASK), wType), USB_EP_CTR_RX + USB_EP_CTR_TX)

pcd_clear_rx_ep_ctr(regVal) ==
  Or(AndNot(And(regVal, USB_EPREG_MASK), USB_EP_CTR_RX), USB_EP_CTR_TX)

\* pcd_clear_tx_ep_ctr masking both complete-flags out
pcd_clear_tx_ep_ctr_Both(regVal) ==
  AndNot(And(regVal, USB_EPREG_MASK), USB_EP_CTR_TX + USB_EP_CTR_RX)

pcd_clear_tx_ep_ctr(regVal) ==
  Or(AndNot(And(regVal, USB_EPREG_MASK), USB_EP_CTR_TX), USB_EP_CTR_RX)

\* pcd_set_ep_tx_status writing the target state instead of the delta
pcd_set_ep_tx_status_NoDelta(regVal, wState) ==
  Or(Or(And(regVal, USB_EPREG_MASK), wState), USB_EP_CTR_RX + USB_EP_CTR_TX)

pcd_set_ep_tx_status(regVal, wState) ==
  Or(Xor(And(regVal, USB_EPTX_DTOGMASK), wState), USB_EP_CTR_RX + USB_EP_CTR_TX)

\* pcd_set_ep_rx_status masking with the tx mask
pcd_set_ep_rx_status_TxMask(regVal, wState) ==
  Or(Xor(And(regVal, USB_EPTX_DTOGMASK), wState), USB_EP_CTR_RX + USB_EP_CTR_TX)

pcd_set_ep_rx_status(regVal, wState) ==
  Or(Xor(And(regVal, USB_EPRX_DTOGMASK), wState), USB_EP_CTR_RX + USB_EP_CTR_TX)

pcd_rx_dtog(regVal) ==
  Or(And(regVal, USB_EPREG_MASK), USB_EP_CTR_RX + USB_EP_CTR_TX + USB_EP_DTOG_RX)

pcd_tx_dtog(regVal) ==
  Or(And(regVal, USB_EPREG_MASK), USB_EP_CTR_RX + USB_EP_CTR_TX + USB_EP_DTOG_TX)

\* the clears toggling without the test
pcd_clear_rx_dtog_Always(regVal) == TRUE

pcd_clear_tx_dtog_Always(regVal) == TRUE

\* the test of pcd_clear_rx_dtog / pcd_clear_tx_dtog on the value they read:
\* TRUE when they go on to call pcd_rx_dtog / pcd_tx_dtog
pcd_clear_rx_dtog(regVal) == And(regVal, USB_EP_DTOG_RX) # 0

pcd_clear_tx_dtog(regVal) == And(regVal, USB_EP_DTOG_TX) # 0

pcd_set_ep_kind(regVal) ==
  Or(And(Or(regVal, USB_EP_KIND), USB_EPREG_MASK), USB_EP_CTR_RX + USB_EP_CTR_TX)

pcd_clear_ep_kind(regVal) ==
  Or(And(regVal, USB_EPKIND_MASK), USB_EP_CTR_RX + USB_EP_CTR_TX)

\* the getters, on the register value pcd_get_endpoint returns
pcd_get_eptype(regVal) == And(regVal, USB_EP_T_FIELD)

pcd_get_ep_rx_status(regVal) == And(regVal, USB_EPRX_STAT) \div 4096

\* the largest wCount handed to the buffer-size encoder
MaxCount == 1023

(***************************************************************************)
(* The buffer-size encoder.                                                *)
(***************************************************************************)
\* blocksize of pcd_aligned_buffer_size: the block unit for a requested size
aligned_blocksize(size) == IF size > 62 THEN 32 ELSE 2

\* numblocks of pcd_aligned_buffer_size with the division rounded down
aligned_numblocks_RoundDown(size) ==
  (size \div aligned_blocksize(size)) % U16

\* numblocks of pcd_aligned_buffer_size: the division rounded up, as uint16_t
aligned_numblocks(size) ==
  ((size + aligned_blocksize(size) - 1) \div aligned_blocksize(size)) % U16

\* the parameter is a uint16_t and so is the result
pcd_aligned_buffer_size(size) ==
  (aligned_numblocks(size % U16) * aligned_blocksize(size % U16)) % U16

\* blocksize of pcd_set_ep_bufsize with the threshold two bytes late
bufsize_blocksize_Late(wCount) == IF wCount > 64 THEN 1 ELSE 0

\* blocksize of pcd_set_ep_bufsize: the block-size flag for a rounded size
bufsize_blocksize(wCount) == IF wCount > 62 THEN 1 ELSE 0

\* numblocks of pcd_set_ep_bufsize
\* the block count taken in 32-byte units whatever the flag
bufsize_numblocks_Unit32(wCount) == (wCount \div 32) % U16

bufsize_numblocks(wCount) ==
  (wCount \div (IF bufsize_blocksize(wCount) # 0 THEN 32 ELSE 2)) % U16

\* the condition of the TU_ASSERT of pcd_set_ep_bufsize
bufsize_assert(wCount) ==
  wCount - bufsize_numblocks(wCount)
             * (IF bufsize_blocksize(wCount) # 0 THEN 32 ELSE 2) = 0

\* A buffer descriptor is the pair of its halfwords: addr and count in the
\* 16-bit layouts, the low and the high half of count_addr in the 32-bit one.
\* pcd_set_ep_blsize_num_blocks: the descriptor after the encoding is stored.
\* On the 32-bit bus the word is rewritten with its low half kept, blocksize
\* at bit 31 and numblocks - blocksize from bit 26 up; on the 16-bit bus the
\* count halfword alone is written, blocksize at bit 15 and
\* numblocks - blocksize from bit 10 up.
\* the encoding without the bias of one block
pcd_set_ep_blsize_num_blocks_NoBias(bus32bit, desc, blocksize, numblocks) ==
  IF bus32bit
    THEN [addr |-> And(desc.addr, 65535),
          count |-> Or((blocksize * 32768) % U16,
                       ((numblocks % 64) * 1024) % U16)]
    ELSE [addr |-> desc.addr,
          count |-> Or(blocksize * 32768, (numblocks * 1024) % U16) % U16]

\* the 32-bit store made without reading the word back first
pcd_set_ep_blsize_num_blocks_Blind(bus32bit, desc, blocksize, numblocks) ==
  IF bus32bit
    THEN [addr |-> 0,
          count |-> Or((blocksize * 32768) % U16,
                       (((numblocks - blocksize) % 64) * 1024) % U16)]
    ELSE [addr |-> desc.addr,
          count |-> Or(blocksize * 32768,
                       ((numblocks - blocksize) * 1024) % U16) % U16]

pcd_set_ep_blsize_num_blocks(bus32bit, desc, blocksize, numblocks) ==
  IF bus32bit
    THEN [addr |-> And(desc.addr, 65535),
          count |-> Or((blocksize * 32768) % U16,
                       (((numblocks - blocksize) % 64) * 1024) % U16)]
    ELSE [addr |-> desc.addr,
          count |-> Or(blocksize * 32768,
                       ((numblocks - blocksize) * 1024) % U16) % U16]

(***************************************************************************)
(* State.                                                                  *)
(***************************************************************************)
VARIABLES
  reg,      \* the endpoint register USB_EPnR of the endpoint operated on
  pc,       \* where the running codec function stands
  op,       \* the codec function called
  arg,      \* its bAddr / wType / wState argument (0 when it has none)
  regVal,   \* its local regVal
  pre,      \* the register when the function was called
  touched,  \* the peripheral wrote the register since the call
  acc,      \* the register accesses of the call in order, "r" and "w"
  wrval,    \* the value the call stored with pcd_set_endpoint
  script,   \* the calls still to make, when a fixed sequence is run
  start,    \* the register before the first call
  bus32,    \* FSDEV_BUS_32BIT is defined: the descriptors are 32-bit words
  pma_size, \* FSDEV_PMA_SIZE of the build
  btable_base, \* FSDEV_BTABLE_BASE of the build
  cfg,      \* the outcome of the build's static checks
  pma,      \* the head of the packet memory, halfword by halfword as the CPU
            \* addresses it from USB_PMAADDR
  pma0,     \* the packet memory before the last buffer-table call
  bpc,      \* where the buffer-table call stands
  bop,      \* the buffer-table function called last
  calls,    \* the number of buffer-table calls made
  rxtx_idx, \* the descriptor the call is for, 2 * endpoint + is_rx
  barg,     \* the addr / byte_count the caller passed
  wCount,   \* the wCount the caller passed
  aligned,  \* wCount of pcd_set_ep_bufsize once rounded
  blocksize, \* blocksize of pcd_set_ep_bufsize
  numblocks \* numblocks of pcd_set_ep_bufsize

codecVars ==
  <<reg, pc, op, arg, regVal, pre, touched, acc, wrval, script, start>>

bufVars ==
  <<bus32, pma_size, btable_base, cfg, pma, pma0, bpc, bop, calls, rxtx_idx,
    barg, wCount, aligned, blocksize, numblocks>>

vars == <<codecVars, bufVars>>

\* hardware limit endpoint
FSDEV_EP_COUNT == 8

DescIds == 0 .. (2 * FSDEV_EP_COUNT - 1)

(***************************************************************************)
(* The build configuration: FSDEV_PMA_SIZE selects the geometry,           *)
(* FSDEV_BTABLE_BASE places the table, three static checks accept or       *)
(* reject the build.                                                       *)
(***************************************************************************)
\* the FSDEV_PMA_SIZE values the #if chain knows, each built with or without
\* FSDEV_BUS_32BIT (2048 without it draws a warning only)
Geometries == [size : {512, 1024, 2048}, bus32bit : BOOLEAN]

FSDEV_PMA_STRIDE(size) == IF size = 512 THEN 2 ELSE 1

\* the alignment of the two uint16_t members of an ep16 entry:
\* TU_ATTR_ALIGNED(4) on 512-byte devices, the natural 2 elsewhere
pma_aligned(size) == IF size = 512 THEN 4 ELSE 2

\* an ep16 entry laid out without the alignment attribute
sizeof_ep16_Packed(size) == 4

\* sizeof of one ep16 entry: addr at 0, count at pma_aligned, padded to the
\* alignment
sizeof_ep16(size) == 2 * pma_aligned(size)

\* sizeof of one ep32 entry, a uint32_t
sizeof_ep32 == 4

\* sizeof(fsdev_btable_t): the union of the two arrays
sizeof_fsdev_btable_t(size) ==
  IF FSDEV_EP_COUNT * 2 * sizeof_ep16(size) > FSDEV_EP_COUNT * 2 * sizeof_ep32
    THEN FSDEV_EP_COUNT * 2 * sizeof_ep16(size)
    ELSE FSDEV_EP_COUNT * 2 * sizeof_ep32

\* TU_VERIFY_STATIC(FSDEV_BTABLE_BASE % 8 == 0)
base_is_aligned(base) == base % 8 = 0

\* TU_VERIFY_STATIC(sizeof(fsdev_btable_t) == FSDEV_EP_COUNT*8*FSDEV_PMA_STRIDE)
size_is_correct(size) ==
  sizeof_fsdev_btable_t(size) = FSDEV_EP_COUNT * 8 * FSDEV_PMA_STRIDE(size)

\* TU_VERIFY_STATIC(FSDEV_BTABLE_BASE + FSDEV_EP_COUNT*8 <= FSDEV_PMA_SIZE)
btable_fits(size, base) == base + FSDEV_EP_COUNT * 8 <= size

\* the build passes the three checks
static_checks(size, base) ==
  /\ base_is_aligned(base)
  /\ size_is_correct(size)
  /\ btable_fits(size, base)

(***************************************************************************)
(* Where the two views of the table land in packet memory.  A place is the *)
(* index of a halfword counted from USB_PMAADDR, which is the index into   *)
(* pma[]; the 32-bit word pma32[i] is the halfwords 2i (low) and 2i + 1.   *)
(***************************************************************************)
\* the BTABLE register, which the driver loads with FSDEV_BTABLE_BASE
BTABLE == btable_base

\* &FSDEV_BTABLE->ep16[ep_id][is_rx].addr
ep16_addr(size, base, ep_id, is_rx) ==
  (base + (2 * ep_id + is_rx) * sizeof_ep16(size)) \div 2

\* &FSDEV_BTABLE->ep16[ep_id][is_rx].count
ep16_count(size, base, ep_id, is_rx) ==
  (base + (2 * ep_id + is_rx) * sizeof_ep16(size) + pma_aligned(size)) \div 2

\* &FSDEV_BTABLE->ep32[ep_id][is_rx].count_addr, its low halfword
ep32_count_addr(base, ep_id, is_rx) ==
  (base + (2 * ep_id + is_rx) * sizeof_ep32) \div 2

pcd_btable_word_ptr(size, btableReg, x) ==
  ((btableReg \div 2) + x) * FSDEV_PMA_STRIDE(size)

pcd_ep_tx_cnt_ptr(size, btableReg, bEpIdx) ==
  pcd_btable_word_ptr(size, btableReg, bEpIdx * 4 + 1)

pcd_ep_rx_cnt_ptr(size, btableReg, bEpIdx) ==
  pcd_btable_word_ptr(size, btableReg, bEpIdx * 4 + 3)

\* &pma32[i], its low halfword
pma32(i) == 2 * i

\* the place of the count field of descriptor ep_id, is_rx through the
\* structure FSDEV_BTABLE
StructCountPlace(bus32bit, size, base, ep_id, is_rx) ==
  IF bus32bit THEN ep32_count_addr(base, ep_id, is_rx) + 1
              ELSE ep16_count(size, base, ep_id, is_rx)

\* the place of the same field through the word pointers
PointerCountPlace(bus32bit, size, btableReg, ep_id, is_rx) ==
  IF bus32bit
    THEN pma32(2 * ep_id + is_rx) + 1
    ELSE IF is_rx = 1 THEN pcd_ep_rx_cnt_ptr(size, btableReg, ep_id)
                      ELSE pcd_ep_tx_cnt_ptr(size, btableReg, ep_id)

\* the halfwords of packet memory the model keeps: the stretch from
\* USB_PMAADDR that either view of the table can reach
PmaPlaces(size, base) ==
  0 .. ((FSDEV_PMA_STRIDE(size) * (base + FSDEV_EP_COUNT * 8)) \div 2 - 1)

(***************************************************************************)
(* The accessors of the table, on a packet memory m.                       *)
(***************************************************************************)
\* the count kept as the caller passed it
set_count_word_NoInputMask(cnt, byte_count) ==
  Or(AndNot(cnt, 1023), byte_count)

\* the count stored over the whole halfword
set_count_word_Overwrite(cnt, byte_count) == And(byte_count, 1023)

\* (cnt & ~0x3FF) | (byte_count & 0x3FF), the halfword btable_set_count and
\* pcd_set_ep_tx_dbuf1_cnt store
set_count_word(cnt, byte_count) ==
  Or(AndNot(cnt, 1023), And(byte_count, 1023))

btable_get_count_NoMask(m, ep_id, is_rx) ==
  m[StructCountPlace(bus32, pma_size, btable_base, ep_id, is_rx)]

btable_get_count(m, ep_id, is_rx) ==
  And(m[StructCountPlace(bus32, pma_size, btable_base, ep_id, is_rx)], 1023)

btable_get_addr(m, ep_id, is_rx) ==
  IF bus32 THEN m[ep32_count_addr(btable_base, ep_id, is_rx)]
           ELSE m[ep16_addr(pma_size, btable_base, ep_id, is_rx)]

\* the 32-bit store keeping the two low bits of addr
btable_set_addr_NoAlign(m, ep_id, is_rx, addr) ==
  IF bus32
    THEN [m EXCEPT ![ep32_count_addr(btable_base, ep_id, is_rx)] = addr % U16]
    ELSE [m EXCEPT ![ep16_addr(pma_size, btable_base, ep_id, is_rx)] =
            addr % U16]

btable_set_addr(m, ep_id, is_rx, addr) ==
  IF bus32
    THEN [m EXCEPT ![ep32_count_addr(btable_base, ep_id, is_rx)] =
            And(addr % U16, 65532)]
    ELSE [m EXCEPT ![ep16_addr(pma_size, btable_base, ep_id, is_rx)] =
            addr % U16]

btable_set_count(m, ep_id, is_rx, byte_count) ==
  [m EXCEPT ![StructCountPlace(bus32, pma_size, btable_base, ep_id, is_rx)] =
     set_count_word(@, byte_count % U16)]

\* pcd_set_ep_tx_dbuf1_cnt stores through pma32[2*bEpIdx + 1] or through
\* pcd_ep_rx_cnt_ptr
set_ep_tx_dbuf1_cnt(m, bEpIdx, w) ==
  [m EXCEPT ![PointerCountPlace(bus32, pma_size, BTABLE, bEpIdx, 1)] =
     set_count_word(@, w % U16)]

\* pcd_set_ep_blsize_num_blocks stores through pma32[rxtx_idx] or through
\* pcd_btable_word_ptr(USBx, rxtx_idx*2 + 1)
set_ep_blsize_num_blocks(m, idx, bs, nb) ==
  IF bus32
    THEN [m EXCEPT
            ![pma32(idx)] = pcd_set_ep_blsize_num_blocks(TRUE,
               [addr |-> m[pma32(idx)], count |-> m[pma32(idx) + 1]],
               bs, nb).addr,
            ![pma32(idx) + 1] = pcd_set_ep_blsize_num_blocks(TRUE,
               [addr |-> m[pma32(idx)], count |-> m[pma32(idx) + 1]],
               bs, nb).count]
    ELSE [m EXCEPT
            ![pcd_btable_word_ptr(pma_size, BTABLE, idx * 2 + 1)] =
               pcd_set_ep_blsize_num_blocks(FALSE,
                 [addr |-> 0, count |-> @], bs, nb).count]

\* no buffer-table call made, no packet memory modelled
TableAtRest ==
  /\ pma = <<>>
  /\ pma0 = <<>>
  /\ bpc = "idle"
  /\ bop = "none"
  /\ calls = 0
  /\ rxtx_idx = 0
  /\ barg = 0
  /\ wCount = 0
  /\ aligned = 0
  /\ blocksize = 0
  /\ numblocks = 0

BufAtRest ==
  /\ bus32 \in BOOLEAN
  /\ pma_size = 1024
  /\ btable_base = 0
  /\ cfg = "accepted"
  /\ TableAtRest

\* the endpoint register at its reset value and no codec call made
CodecAtRest ==
  /\ reg = 0
  /\ pc = "idle"
  /\ op = "none"
  /\ arg = 0
  /\ regVal = 0
  /\ pre = 0
  /\ touched = FALSE
  /\ acc = <<>>
  /\ wrval = 0
  /\ script = <<>>
  /\ start = 0

RegValues == 0 .. (U16 - 1)

\* functions made of one pcd_get_endpoint and one pcd_set_endpoint
RmwOps ==
  {"pcd_set_ep_address", "pcd_set_eptype", "pcd_clear_rx_ep_ctr",
   "pcd_clear_tx_ep_ctr", "pcd_set_ep_tx_status", "pcd_set_ep_rx_status",
   "pcd_rx_dtog", "pcd_tx_dtog", "pcd_set_ep_kind", "pcd_clear_ep_kind"}

\* functions that read, test and then call pcd_rx_dtog / pcd_tx_dtog
CondOps == {"pcd_clear_rx_dtog", "pcd_clear_tx_dtog"}

\* bAddr values of more than 16 bits, which only the 32-bit store keeps whole
WideAddrs == {65537}

Args(o) ==
  CASE o = "pcd_set_ep_address" -> (0 .. MaxAddr) \cup WideAddrs
    [] o = "pcd_set_eptype" -> EpTypes
    [] o = "pcd_set_ep_tx_status" -> TxStates
    [] o = "pcd_set_ep_rx_status" -> RxStates
    [] OTHER -> {0}

\* *reg of pcd_get_endpoint
pcd_get_endpoint(r) == r

\* the value pcd_set_endpoint puts on the bus: *reg = wRegValue on the 32-bit
\* bus, *reg = (uint16_t) wRegValue otherwise
pcd_set_endpoint(bus32bit, wRegValue) ==
  IF bus32bit THEN wRegValue ELSE wRegValue % U16

\* the value the running function passes to pcd_set_endpoint
WriteValue(o, a, rv) ==
  CASE o = "pcd_set_ep_address" -> pcd_set_ep_address(rv, a)
    [] o = "pcd_set_eptype" -> pcd_set_eptype(rv, a)
    [] o = "pcd_clear_rx_ep_ctr" -> pcd_clear_rx_ep_ctr(rv)
    [] o = "pcd_clear_tx_ep_ctr" -> pcd_clear_tx_ep_ctr(rv)
    [] o = "pcd_set_ep_tx_status" -> pcd_set_ep_tx_status(rv, a)
    [] o = "pcd_set_ep_rx_status" -> pcd_set_ep_rx_status(rv, a)
    [] o \in {"pcd_rx_dtog", "pcd_clear_rx_dtog"} -> pcd_rx_dtog(rv)
    [] o \in {"pcd_tx_dtog", "pcd_clear_tx_dtog"} -> pcd_tx_dtog(rv)
    [] o = "pcd_set_ep_kind" -> pcd_set_ep_kind(rv)
    [] o = "pcd_clear_ep_kind" -> pcd_clear_ep_kind(rv)

CondTest(o, rv) ==
  IF o = "pcd_clear_rx_dtog" THEN pcd_clear_rx_dtog(rv) ELSE pcd_clear_tx_dtog(rv)

Init ==
  /\ reg \in RegValues
  /\ pc = "idle"
  /\ op = "none"
  /\ arg = 0
  /\ regVal = 0
  /\ pre = reg
  /\ touched = FALSE
  /\ acc = <<>>
  /\ wrval = 0
  /\ script = <<>>
  /\ start = reg
  /\ BufAtRest

\* entry of a read-modify-write function up to its pcd_get_endpoint
CallRmw ==
  /\ pc = "idle"
  /\ \E o \in RmwOps : \E a \in Args(o) :
       /\ op' = o
       /\ arg' = a
  /\ regVal' = pcd_get_endpoint(reg)
  /\ pre' = reg
  /\ acc' = <<"r">>
  /\ pc' = "modify"
  /\ UNCHANGED <<reg, touched, wrval, script, start, bufVars>>

\* pcd_clear_rx_dtog / pcd_clear_tx_dtog up to the test of the value read
CallCond ==
  /\ pc = "idle"
  /\ \E o \in CondOps :
       /\ op' = o
       /\ pc' = IF CondTest(o, pcd_get_endpoint(reg)) THEN "inner" ELSE "done"
  /\ arg' = 0
  /\ regVal' = pcd_get_endpoint(reg)
  /\ pre' = reg
  /\ acc' = <<"r">>
  /\ UNCHANGED <<reg, touched, wrval, script, start, bufVars>>

\* the pcd_get_endpoint of the pcd_rx_dtog / pcd_tx_dtog called by a clear
InnerRead ==
  /\ pc = "inner"
  /\ regVal' = pcd_get_endpoint(reg)
  /\ acc' = Append(acc, "r")
  /\ pc' = "modify"
  /\ UNCHANGED <<reg, op, arg, pre, touched, wrval, script, start, bufVars>>

\* the modification of regVal and the pcd_set_endpoint that ends the function
Write ==
  /\ pc = "modify"
  /\ wrval' = pcd_set_endpoint(bus32, WriteValue(op, arg, regVal))
  /\ reg' = HwWrite(reg, wrval')
  /\ acc' = Append(acc, "w")
  /\ pc' = "done"
  /\ UNCHANGED <<op, arg, regVal, pre, touched, script, start, bufVars>>

\* the peripheral raises a complete-flag on a wire event while a function is
\* between its read and its write (a flag raised before the call is a
\* register value the call starts from)
PeripheralCtrTx ==
  /\ pc \in {"inner", "modify"}
  /\ And(reg, USB_EP_CTR_TX) = 0
  /\ reg' = reg + USB_EP_CTR_TX
  /\ touched' = TRUE
  /\ UNCHANGED <<pc, op, arg, regVal, pre, acc, wrval, script, start, bufVars>>

PeripheralCtrRx ==
  /\ pc \in {"inner", "modify"}
  /\ And(reg, USB_EP_CTR_RX) = 0
  /\ reg' = reg + USB_EP_CTR_RX
  /\ touched' = TRUE
  /\ UNCHANGED <<pc, op, arg, regVal, pre, acc, wrval, script, start, bufVars>>

Next ==
  \/ CallRmw
  \/ CallCond
  \/ InnerRead
  \/ Write
  \/ PeripheralCtrTx
  \/ PeripheralCtrRx

\* register values the 32-bit build starts from when wire events are let
\* in: each field of the register empty, full, and mixed
RegSamples == {0, 128, 32768, 32896, 34952, 12336, 16448, 1551, 30583, 65535}

\* with wire events the 16-bit build starts from every register value, the
\* 32-bit build, whose calls differ only in how wide a value they store,
\* from RegSamples
InitRace ==
  /\ Init
  /\ bus32 => reg \in RegSamples

Spec == InitRace /\ [][Next]_vars

(***************************************************************************)
(* The codec called with the peripheral quiet: no wire event falls between *)
(* a function's read and its write.                                        *)
(***************************************************************************)
NextQuiet ==
  \/ CallRmw
  \/ CallCond
  \/ InnerRead
  \/ Write

SpecQuiet == Init /\ [][NextQuiet]_vars

(***************************************************************************)
(* Control endpoint set-up: pcd_set_eptype(0, CONTROL),                    *)
(* pcd_set_ep_address(0, 0), pcd_set_ep_tx_status(0, VALID),               *)
(* pcd_set_ep_rx_status(0, VALID), in this order, from any register value. *)
(***************************************************************************)
Ep0Script ==
  << [f |-> "pcd_set_eptype", a |-> USB_EP_CONTROL],
     [f |-> "pcd_set_ep_address", a |-> 0],
     [f |-> "pcd_set_ep_tx_status", a |-> USB_EP_TX_VALID],
     [f |-> "pcd_set_ep_rx_status", a |-> USB_EP_RX_VALID] >>

InitEp0 ==
  /\ reg \in RegValues
  /\ pc = "idle"
  /\ op = "none"
  /\ arg = 0
  /\ regVal = 0
  /\ pre = reg
  /\ touched = FALSE
  /\ acc = <<>>
  /\ wrval = 0
  /\ script = Ep0Script
  /\ start = reg
  /\ BufAtRest

\* the next call of the sequence, up to its pcd_get_endpoint
ScriptCall ==
  /\ pc \in {"idle", "done"}
  /\ script # <<>>
  /\ op' = Head(script).f
  /\ arg' = Head(script).a
  /\ script' = Tail(script)
  /\ regVal' = pcd_get_endpoint(reg)
  /\ pre' = reg
  /\ acc' = <<"r">>
  /\ pc' = "modify"
  /\ UNCHANGED <<reg, touched, wrval, start, bufVars>>

NextEp0 ==
  \/ ScriptCall
  \/ Write

SpecEp0 == InitEp0 /\ [][NextEp0]_vars

(***************************************************************************)
(* The buffer-size encoder called once on a buffer table of any accepted   *)
(* build.                                                                  *)
(***************************************************************************)
\* what the halfwords of packet memory hold before the call
FillWords == {0, 65535}

\* the largest FSDEV_BTABLE_BASE of the builds whose memory is modelled, in
\* units of 8 bytes
MaxBaseUnits == 1

\* wCount values past the 10-bit range, up to those whose rounding or whose
\* conversion to uint16_t wraps
WideCounts == {1024, 1025, 2047, 2048, 65504, 65505, 65535, 65536, 65537, 65599,
               131071}

Builds ==
  { b \in [geo : Geometries, base : {8 * k : k \in 0 .. MaxBaseUnits}] :
      static_checks(b.geo.size, b.base) }

\* a built driver before any buffer-table call, packet memory holding fill
InitMemory ==
  /\ CodecAtRest
  /\ \E b \in Builds :
       /\ bus32 = b.geo.bus32bit
       /\ pma_size = b.geo.size
       /\ btable_base = b.base
       /\ \E f \in FillWords : pma = [i \in PmaPlaces(b.geo.size, b.base) |-> f]
  /\ cfg = "accepted"
  /\ pma0 = pma
  /\ bpc = "idle"
  /\ bop = "none"
  /\ calls = 0
  /\ barg = 0
  /\ wCount = 0
  /\ aligned = 0
  /\ blocksize = 0
  /\ numblocks = 0

InitBuf ==
  /\ InitMemory
  /\ rxtx_idx = 0

\* pcd_set_ep_bufsize(USBx, idx, w): round, choose the encoding, assert it
\* is exact, store it with pcd_set_ep_blsize_num_blocks
pcd_set_ep_bufsize(idx, w) ==
  /\ rxtx_idx' = idx
  /\ wCount' = w
  /\ aligned' = pcd_aligned_buffer_size(w)
  /\ blocksize' = bufsize_blocksize(aligned')
  /\ numblocks' = bufsize_numblocks(aligned')
  /\ IF bufsize_assert(aligned')
       THEN /\ pma' = set_ep_blsize_num_blocks(pma, idx, blocksize', numblocks')
            /\ bpc' = "done"
       ELSE /\ pma' = pma
            /\ bpc' = "assert"
  /\ pma0' = pma
  /\ calls' = calls + 1
  /\ UNCHANGED <<bus32, pma_size, btable_base, cfg, barg, codecVars>>

pcd_set_ep_rx_dbuf0_cnt ==
  /\ bpc = "idle"
  /\ bop' = "pcd_set_ep_rx_dbuf0_cnt"
  /\ \E bEpIdx \in 0 .. (FSDEV_EP_COUNT - 1) :
       \E w \in (0 .. MaxCount) \cup WideCounts :
         pcd_set_ep_bufsize(2 * bEpIdx, w)

pcd_set_ep_rx_cnt ==
  /\ bpc = "idle"
  /\ bop' = "pcd_set_ep_rx_cnt"
  /\ \E bEpIdx \in 0 .. (FSDEV_EP_COUNT - 1) :
       \E w \in (0 .. MaxCount) \cup WideCounts :
         pcd_set_ep_bufsize(2 * bEpIdx + 1, w)

NextBuf ==
  \/ pcd_set_ep_rx_dbuf0_cnt
  \/ pcd_set_ep_rx_cnt

SpecBuf == InitBuf /\ [][NextBuf]_vars

(***************************************************************************)
(* Sequences of buffer-table calls on one endpoint: the accessors through  *)
(* the structure and the setters through the word pointers, with arguments *)
(* from small sets.                                                        *)
(***************************************************************************)
\* the number of calls of a sequence
MaxCalls == 2

\* the wCount values of the encoder calls
SeqSizes == {0, 63, 1023}

\* the byte_count values, 16 bits wide
SeqCounts == {0, 1, 1023, 1024, 65535}

\* the addr values, 16 bits wide
SeqAddrs == {0, 3, 65535}

\* the endpoint the calls of this behaviour are for
bEp == rxtx_idx \div 2

InitSeq ==
  /\ InitMemory
  /\ \E ep \in 0 .. (FSDEV_EP_COUNT - 1) : rxtx_idx = 2 * ep

MayCall ==
  /\ calls < MaxCalls
  /\ bpc # "assert"

\* a call that is not the encoder: it stores m
TableCall(name, idx, a, m) ==
  /\ bop' = name
  /\ rxtx_idx' = idx
  /\ barg' = a
  /\ pma' = m
  /\ pma0' = pma
  /\ calls' = calls + 1
  /\ bpc' = "done"
  /\ UNCHANGED <<bus32, pma_size, btable_base, cfg, wCount, aligned, blocksize,
                 numblocks, codecVars>>

btable_set_count_call ==
  /\ MayCall
  /\ \E is_rx \in {0, 1} : \E c \in SeqCounts :
       TableCall("btable_set_count", 2 * bEp + is_rx, c,
                 btable_set_count(pma, bEp, is_rx, c))

btable_set_addr_call ==
  /\ MayCall
  /\ \E is_rx \in {0, 1} : \E a \in SeqAddrs :
       TableCall("btable_set_addr", 2 * bEp + is_rx, a,
                 btable_set_addr(pma, bEp, is_rx, a))

pcd_set_ep_tx_cnt ==
  /\ MayCall
  /\ \E c \in SeqCounts :
       TableCall("pcd_set_ep_tx_cnt", 2 * bEp, c,
                 btable_set_count(pma, bEp, 0, c))

pcd_set_ep_tx_dbuf1_cnt ==
  /\ MayCall
  /\ \E c \in SeqCounts :
       TableCall("pcd_set_ep_tx_dbuf1_cnt", 2 * bEp + 1, c,
                 set_ep_tx_dbuf1_cnt(pma, bEp, c))

pcd_set_ep_rx_dbuf0_cnt_call ==
  /\ MayCall
  /\ bop' = "pcd_set_ep_rx_dbuf0_cnt"
  /\ \E w \in SeqSizes : pcd_set_ep_bufsize(2 * bEp, w)

pcd_set_ep_rx_cnt_call ==
  /\ MayCall
  /\ bop' = "pcd_set_ep_rx_cnt"
  /\ \E w \in SeqSizes : pcd_set_ep_bufsize(2 * bEp + 1, w)

NextSeq ==
  \/ btable_set_count_call
  \/ btable_set_addr_call
  \/ pcd_set_ep_tx_cnt
  \/ pcd_set_ep_tx_dbuf1_cnt
  \/ pcd_set_ep_rx_dbuf0_cnt_call
  \/ pcd_set_ep_rx_cnt_call

SpecSeq == InitSeq /\ [][NextSeq]_vars

(***************************************************************************)
(* The static checks run on builds of every geometry and base.             *)
(***************************************************************************)
\* the largest FSDEV_BTABLE_BASE tried, in bytes
MaxBase == 2047

InitCfg ==
  /\ CodecAtRest
  /\ TableAtRest
  /\ \E g \in Geometries :
       /\ bus32 = g.bus32bit
       /\ pma_size = g.size
  /\ btable_base \in 0 .. MaxBase
  /\ cfg = "unbuilt"

\* the three TU_VERIFY_STATIC of the header: the build goes on or stops
TU_VERIFY_STATIC ==
  /\ cfg = "unbuilt"
  /\ cfg' = IF static_checks(pma_size, btable_base) THEN "accepted"
                                                     ELSE "rejected"
  /\ UNCHANGED <<bus32, pma_size, btable_base, pma, pma0, bpc, bop, calls,
                 rxtx_idx, barg, wCount, aligned, blocksize, numblocks,
                 codecVars>>

NextCfg == TU_VERIFY_STATIC

SpecCfg == InitCfg /\ [][NextCfg]_vars

(***************************************************************************)
(* Claims about the endpoint register codec.                               *)
(***************************************************************************)
CtrBits == USB_EP_CTR_RX + USB_EP_CTR_TX

\* a call of function f has returned and no wire event fell inside it
Returned(f) == pc = "done" /\ op = f /\ ~touched

\* C1: pcd_clear_tx_ep_ctr leaves tx-complete at 0 and rx-complete as it
\* was, pcd_clear_rx_ep_ctr leaves rx-complete at 0 and tx-complete as it
\* was, and neither changes any other field of the register.
C1_ClearCtrKeepsOther ==
  /\ Returned("pcd_clear_tx_ep_ctr") =>
       /\ And(reg, USB_EP_CTR_TX) = 0
       /\ And(reg, USB_EP_CTR_RX) = And(pre, USB_EP_CTR_RX)
       /\ AndNot(reg, CtrBits) = AndNot(pre, CtrBits)
  /\ Returned("pcd_clear_rx_ep_ctr") =>
       /\ And(reg, USB_EP_CTR_RX) = 0
       /\ And(reg, USB_EP_CTR_TX) = And(pre, USB_EP_CTR_TX)
       /\ AndNot(reg, CtrBits) = AndNot(pre, CtrBits)

\* both flags were pending, pcd_clear_tx_ep_ctr cleared tx-complete alone
C1_Witness ==
  /\ Returned("pcd_clear_tx_ep_ctr")
  /\ And(pre, CtrBits) = CtrBits
  /\ And(reg, CtrBits) = USB_EP_CTR_RX

\* C2: whatever the peripheral raises between a function's read and its
\* write, the value the function writes has tx-complete = 1 unless the
\* function is pcd_clear_tx_ep_ctr and rx-complete = 1 unless it is
\* pcd_clear_rx_ep_ctr; so a complete-flag that is set goes to 0 only in the
\* write of the clear function of that flag.
C2_FlagsWrittenAsOne ==
  /\ [](pc = "done" /\ acc # <<"r">> =>
          /\ op # "pcd_clear_tx_ep_ctr" => And(wrval, USB_EP_CTR_TX) # 0
          /\ op # "pcd_clear_rx_ep_ctr" => And(wrval, USB_EP_CTR_RX) # 0)
  /\ [][/\ And(reg, USB_EP_CTR_TX) # 0 /\ And(reg', USB_EP_CTR_TX) = 0
             => pc = "modify" /\ op = "pcd_clear_tx_ep_ctr"
        /\ And(reg, USB_EP_CTR_RX) # 0 /\ And(reg', USB_EP_CTR_RX) = 0
             => pc = "modify" /\ op = "pcd_clear_rx_ep_ctr"]_vars

\* pcd_set_eptype read the register with rx-complete clear, the peripheral
\* raised it before the write, and the flag survived the write
C2_Witness ==
  /\ pc = "done"
  /\ op = "pcd_set_eptype"
  /\ touched
  /\ And(regVal, USB_EP_CTR_RX) = 0
  /\ And(reg, USB_EP_CTR_RX) # 0

\* C3: pcd_set_ep_tx_status leaves the tx status field at the target state
\* and every other bit of the register as it was; pcd_set_ep_rx_status does
\* the same for the rx status field.
C3_SetStatusReachesTarget ==
  /\ Returned("pcd_set_ep_tx_status") =>
       /\ And(reg, USB_EPTX_STAT) = arg
       /\ AndNot(reg, USB_EPTX_STAT) = AndNot(pre, USB_EPTX_STAT)
  /\ Returned("pcd_set_ep_rx_status") =>
       /\ And(reg, USB_EPRX_STAT) = arg
       /\ AndNot(reg, USB_EPRX_STAT) = AndNot(pre, USB_EPRX_STAT)

\* a stalled tx direction was set to valid
C3_Witness ==
  /\ Returned("pcd_set_ep_tx_status")
  /\ And(pre, USB_EPTX_STAT) = USB_EP_TX_STALL
  /\ arg = USB_EP_TX_VALID
  /\ And(reg, USB_EPTX_STAT) = USB_EP_TX_VALID

\* C4: after pcd_set_ep_address(ep, addr) the address field equals addr and
\* type, kind, status, data-toggle and complete-flags are unchanged, for
\* every starting register value.
C4_SetAddressStoresAddr ==
  Returned("pcd_set_ep_address") =>
    /\ And(reg, USB_EPADDR_FIELD) = arg
    /\ AndNot(reg, USB_EPADDR_FIELD) = AndNot(pre, USB_EPADDR_FIELD)

\* C5: after pcd_set_eptype(ep, type) pcd_get_eptype returns type, whatever
\* the type was, and every other bit of the register reads as before.
C5_SetTypeKeepsRest ==
  Returned("pcd_set_eptype") =>
    /\ pcd_get_eptype(pcd_get_endpoint(reg)) = arg
    /\ AndNot(reg, USB_EP_T_FIELD) = AndNot(pre, USB_EP_T_FIELD)

\* an interrupt endpoint was made a bulk endpoint
C5_Witness ==
  /\ Returned("pcd_set_eptype")
  /\ pcd_get_eptype(pre) = USB_EP_INTERRUPT
  /\ arg = USB_EP_BULK
  /\ pcd_get_eptype(reg) = USB_EP_BULK

\* C6: the control endpoint set-up sequence ends with type CONTROL, both
\* status fields VALID and both complete-flags as they were before it.
C6_Ep0SetupResult ==
  pc = "done" /\ script = <<>> =>
    /\ pcd_get_eptype(pcd_get_endpoint(reg)) = USB_EP_CONTROL
    /\ And(reg, USB_EPTX_STAT) = USB_EP_TX_VALID
    /\ pcd_get_ep_rx_status(pcd_get_endpoint(reg)) = 3
    /\ And(reg, CtrBits) = And(start, CtrBits)

\* the sequence ran to its end from a stalled isochronous endpoint with
\* rx-complete pending
C6_Witness ==
  /\ pc = "done"
  /\ script = <<>>
  /\ op = "pcd_set_ep_rx_status"
  /\ pcd_get_eptype(start) = USB_EP_ISOCHRONOUS
  /\ And(start, USB_EPTX_STAT) = USB_EP_TX_STALL
  /\ And(start, USB_EPRX_STAT) = USB_EP_RX_STALL
  /\ And(start, CtrBits) = USB_EP_CTR_RX

\* C7: pcd_tx_dtog / pcd_rx_dtog flips exactly its data-toggle bit;
\* pcd_clear_tx_dtog / pcd_clear_rx_dtog leaves its data-toggle bit at 0
\* from either value; no other bit of the register changes.
C7_DataToggle ==
  /\ Returned("pcd_tx_dtog") => reg = Xor(pre, USB_EP_DTOG_TX)
  /\ Returned("pcd_rx_dtog") => reg = Xor(pre, USB_EP_DTOG_RX)
  /\ Returned("pcd_clear_tx_dtog") =>
       /\ And(reg, USB_EP_DTOG_TX) = 0
       /\ AndNot(reg, USB_EP_DTOG_TX) = AndNot(pre, USB_EP_DTOG_TX)
  /\ Returned("pcd_clear_rx_dtog") =>
       /\ And(reg, USB_EP_DTOG_RX) = 0
       /\ AndNot(reg, USB_EP_DTOG_RX) = AndNot(pre, USB_EP_DTOG_RX)

\* pcd_clear_tx_dtog found the tx data-toggle set and cleared it
C7_Witness ==
  /\ Returned("pcd_clear_tx_dtog")
  /\ And(pre, USB_EP_DTOG_TX) # 0
  /\ reg = pre - USB_EP_DTOG_TX

\* C8 as stated: every codec function makes exactly one read of the
\* endpoint register followed by exactly one write.
C8_OneReadOneWrite ==
  pc = "done" => acc = <<"r", "w">>

\* the data-toggle a clear is for was 1 when the clear was called
ToggleWasSet ==
  \/ op = "pcd_clear_rx_dtog" /\ And(pre, USB_EP_DTOG_RX) # 0
  \/ op = "pcd_clear_tx_dtog" /\ And(pre, USB_EP_DTOG_TX) # 0

\* C8 as the code has it: every codec function but the two data-toggle
\* clears makes one read followed by one write; pcd_clear_rx_dtog and
\* pcd_clear_tx_dtog make a single read and no write when the data-toggle
\* they read is 0, and two reads followed by one write when it is 1.
C8_AccessPattern ==
  /\ Len(acc) <= 3
  /\ pc = "done" =>
       acc = IF op \in CondOps
               THEN IF ToggleWasSet THEN <<"r", "r", "w">> ELSE <<"r">>
               ELSE <<"r", "w">>

\* pcd_clear_rx_dtog found the data-toggle set: two reads, then the write
C8_Witness ==
  /\ pc = "done"
  /\ op = "pcd_clear_rx_dtog"
  /\ acc = <<"r", "r", "w">>

(***************************************************************************)
(* Claims about the buffer-size encoder.                                   *)
(***************************************************************************)
\* the block unit the stored flag stands for
BlockUnit == IF blocksize = 1 THEN 32 ELSE 2

\* n / d rounded up
Ceil(n, d) == n \div d + (IF n % d = 0 THEN 0 ELSE 1)

\* C9: for requested sizes 0..1023 the allocated size is at least the
\* requested size, a multiple of the chosen block unit, and at most the
\* requested size plus the block unit minus 1.
C9_AlignedSizeBounds ==
  bpc = "done" /\ wCount <= 1023 =>
    /\ BlockUnit = aligned_blocksize(wCount)
    /\ aligned >= wCount
    /\ aligned % BlockUnit = 0
    /\ aligned <= wCount + BlockUnit - 1

\* 1023 bytes requested, 1024 allocated
C9_Witness ==
  /\ bpc = "done"
  /\ wCount = 1023
  /\ aligned = 1024

\* C10: requested sizes up to 62 get block unit 2, flag 0 and
\* ceil(size / 2) blocks; sizes 63..1023 get block unit 32, flag 1 and
\* ceil(size / 32) blocks; 62 gives 31 blocks of 2, 63 gives 2 blocks of 32
\* (64 allocated); the flag chosen from the rounded size agrees with the
\* unit chosen from the requested size.
C10_UnitAndBlockCount ==
  bpc = "done" =>
    /\ wCount <= 62 =>
         /\ aligned_blocksize(wCount) = 2
         /\ blocksize = 0
         /\ numblocks = Ceil(wCount, 2)
    /\ wCount >= 63 /\ wCount <= 1023 =>
         /\ aligned_blocksize(wCount) = 32
         /\ blocksize = 1
         /\ numblocks = Ceil(wCount, 32)
    /\ wCount = 62 => blocksize = 0 /\ numblocks = 31
    /\ wCount = 63 => blocksize = 1 /\ numblocks = 2 /\ aligned = 64
    /\ wCount <= 1023 => (blocksize = 1 <=> aligned_blocksize(wCount) = 32)

\* 63 bytes requested: the first size encoded in blocks of 32
C10_Witness ==
  /\ bpc = "done"
  /\ wCount = 63
  /\ blocksize = 1
  /\ numblocks = 2

\* the halfword the encoder stored through its word pointer
EncPlace ==
  PointerCountPlace(bus32, pma_size, BTABLE, rxtx_idx \div 2, rxtx_idx % 2)

\* the block-size bit of a count halfword: bit 15 of the 16-bit count word,
\* bit 31 of the 32-bit descriptor
BlSizeBit(w) == w \div 32768

\* its 5-bit block-count field: bits 10..14, bits 26..30 of the 32-bit
\* descriptor
NumBlockField(w) == (w \div 1024) % 32

\* C11: for every requested size 0..1023, in the 16-bit and in the 32-bit
\* geometry, after pcd_set_ep_bufsize the block-size bit of the descriptor
\* equals the block size flag and its 5-bit block-count field holds
\* num_blocks - 1 when the flag is 1 and num_blocks when the flag is 0.
C11_FlagAndBlockCountStored ==
  bpc = "done" /\ wCount <= 1023 =>
    /\ BlSizeBit(pma[EncPlace]) = blocksize
    /\ blocksize = 1 => NumBlockField(pma[EncPlace]) = numblocks - 1
    /\ blocksize = 0 => NumBlockField(pma[EncPlace]) = numblocks

\* 64 bytes on a 512-byte device with the table at 8: flag 1, field 1
C11_Witness ==
  /\ bpc = "done"
  /\ wCount = 64
  /\ pma_size = 512
  /\ btable_base = 8
  /\ blocksize = 1
  /\ numblocks = 2
  /\ pma[EncPlace] = 33792

\* C12: the assertion of pcd_set_ep_bufsize holds for every wCount a caller
\* passes, those above 1023 and those whose rounding wraps 16 bits included:
\* the call never ends in the assertion failure.
C12_AssertNeverFails == bpc # "assert"

\* 65535 rounds up to 65536, which wraps to 0, and the call still completes
C12_Witness ==
  /\ bpc = "done"
  /\ wCount = 65535
  /\ aligned = 0
  /\ numblocks = 0

\* the size a stored encoding stands for
Decode(w) ==
  IF BlSizeBit(w) = 1 THEN (NumBlockField(w) + 1) * 32
                      ELSE NumBlockField(w) * 2

\* C19: for every requested size 0..1023 the stored block count is in 0..31,
\* decoding the stored encoding (count * 2 when the bit is 0, (count + 1) * 32
\* when it is 1) gives pcd_aligned_buffer_size of the size, and the store
\* leaves the address field of the descriptor as it was and its 10-bit
\* received count at 0.
C19_EncodingDecodes ==
  bpc = "done" /\ wCount <= 1023 =>
    /\ numblocks - blocksize \in 0 .. 31
    /\ Decode(pma[EncPlace]) = pcd_aligned_buffer_size(wCount)
    /\ Decode(pma[EncPlace]) =
         Ceil(wCount, IF wCount > 62 THEN 32 ELSE 2)
           * (IF wCount > 62 THEN 32 ELSE 2)
    /\ pma[EncPlace] % 1024 = 0
    /\ \A i \in DOMAIN pma : i # EncPlace => pma[i] = pma0[i]

\* 1023 bytes on the 32-bit bus over a descriptor of all ones: 31 in the
\* field stands for 32 blocks of 32, the address half keeps its ones
C19_Witness ==
  /\ bpc = "done"
  /\ wCount = 1023
  /\ bus32
  /\ pma0[EncPlace] = 65535
  /\ pma[EncPlace] = 64512
  /\ pma[EncPlace - 1] = 65535

(***************************************************************************)
(* Claims about the accessors of the buffer table.                         *)
(***************************************************************************)
\* the direction of the last call
bDir == rxtx_idx % 2

\* the place of a descriptor's count field as the structure view has it
CountPlace(ep_id, is_rx) ==
  StructCountPlace(bus32, pma_size, btable_base, ep_id, is_rx)

\* C13: once pcd_set_ep_rx_cnt has stored the rx block encoding, a
\* btable_set_count with any 16-bit count leaves the block-size bit and the
\* block-count field of the descriptor as they were, only the low 10 bits of
\* the count halfword changing, and on the 32-bit bus leaves the address half
\* of the word as it was; so does every sequence of such calls.
C13_SetCountKeepsEncoding ==
  bop = "btable_set_count" =>
    /\ BlSizeBit(pma[CountPlace(bEp, bDir)])
         = BlSizeBit(pma0[CountPlace(bEp, bDir)])
    /\ NumBlockField(pma[CountPlace(bEp, bDir)])
         = NumBlockField(pma0[CountPlace(bEp, bDir)])
    /\ \A i \in DOMAIN pma : i # CountPlace(bEp, bDir) => pma[i] = pma0[i]

\* the encoding of 1023 bytes stored by pcd_set_ep_rx_cnt over zeroes, then
\* a count of 65535 set over it: the six upper bits stay, the low ten fill
C13_Witness ==
  /\ bop = "btable_set_count"
  /\ bDir = 1
  /\ wCount = 1023
  /\ barg = 65535
  /\ CountPlace(bEp, 1) = EncPlace
  /\ pma0[EncPlace] = 64512
  /\ pma[EncPlace] = 65535

\* C14 as stated: whatever the tx count halfword held, bits 10..15
\* included, after pcd_set_ep_tx_cnt(ep, c) with c in 0..1023 the whole
\* halfword equals c.
C14_TxCountOverwritten ==
  bop = "pcd_set_ep_tx_cnt" /\ barg <= 1023 =>
    pma[CountPlace(bEp, 0)] = barg

\* C14: after pcd_set_ep_tx_cnt(ep, c) with c in 0..1023 the low 10 bits of
\* the tx count halfword equal c and its bits 10..15 are those it held
\* before; the whole halfword equals c when those bits were zero.
C14_TxCountLowBits ==
  bop = "pcd_set_ep_tx_cnt" /\ barg <= 1023 =>
    /\ pma[CountPlace(bEp, 0)] % 1024 = barg
    /\ pma[CountPlace(bEp, 0)] \div 1024 = pma0[CountPlace(bEp, 0)] \div 1024
    /\ pma0[CountPlace(bEp, 0)] < 1024 => pma[CountPlace(bEp, 0)] = barg

\* a count of 1 set over a tx count halfword of all ones: bits 10..15 stay
C14_Witness ==
  /\ bop = "pcd_set_ep_tx_cnt"
  /\ barg = 1
  /\ pma0[CountPlace(bEp, 0)] = 65535
  /\ pma[CountPlace(bEp, 0)] = 64513

\* C15: btable_get_count is always in 0..1023 for every endpoint, direction
\* and geometry; right after btable_set_count(ep, dir, c) with any 16-bit c
\* it returns c mod 1024 for that descriptor, and the count of the other
\* direction and of every other endpoint is as before.
C15_CountRoundTrip ==
  /\ \A e \in 0 .. (FSDEV_EP_COUNT - 1) : \A d \in {0, 1} :
       btable_get_count(pma, e, d) \in 0 .. 1023
  /\ bop = "btable_set_count" =>
       /\ btable_get_count(pma, bEp, bDir) = barg % 1024
       /\ \A e \in 0 .. (FSDEV_EP_COUNT - 1) : \A d \in {0, 1} :
            <<e, d>> # <<bEp, bDir>> =>
              btable_get_count(pma, e, d) = btable_get_count(pma0, e, d)

\* a count of 1024 set over a count halfword of all ones: the halfword holds
\* 0xFC00 and the count read back is 0
C15_Witness ==
  /\ bop = "btable_set_count"
  /\ barg = 1024
  /\ pma0[CountPlace(bEp, bDir)] = 65535
  /\ pma[CountPlace(bEp, bDir)] = 64512
  /\ btable_get_count(pma, bEp, bDir) = 0

\* C16: right after btable_set_addr(ep, dir, a) with any 16-bit a,
\* btable_get_addr returns a in the 16-bit geometries and a with its two low
\* bits cleared in the 32-bit geometry; the count halfword of that descriptor
\* and everything of the other descriptors are as before.
C16_AddrRoundTrip ==
  bop = "btable_set_addr" =>
    /\ ~bus32 => btable_get_addr(pma, bEp, bDir) = barg
    /\ bus32 => btable_get_addr(pma, bEp, bDir) = barg - (barg % 4)
    /\ \A e \in 0 .. (FSDEV_EP_COUNT - 1) : \A d \in {0, 1} :
         /\ pma[CountPlace(e, d)] = pma0[CountPlace(e, d)]
         /\ <<e, d>> # <<bEp, bDir>> =>
              btable_get_addr(pma, e, d) = btable_get_addr(pma0, e, d)

\* 65535 set as the address on the 32-bit bus of a descriptor that holds the
\* encoding of 1023 bytes: 65532 is read back, the encoding stays
C16_Witness ==
  /\ bop = "btable_set_addr"
  /\ bus32
  /\ barg = 65535
  /\ btable_get_addr(pma, bEp, bDir) = 65532
  /\ pma[CountPlace(bEp, bDir)] = 64512

(***************************************************************************)
(* Claims about the build configuration and the two views of the table.    *)
(***************************************************************************)
\* C17: for every accepted build (FSDEV_PMA_SIZE 512, 1024 or 2048, 8
\* endpoints) the table is endpoint count * 8 * stride bytes, the stride 2
\* for 512 and 1 otherwise, so 128 bytes on a 512-byte device; a build is
\* accepted only if its base is a multiple of 8 and base + endpoint count * 8
\* is at most the PMA size, and is rejected otherwise.
C17_BuildConfiguration ==
  /\ cfg = "accepted" =>
       /\ sizeof_fsdev_btable_t(pma_size)
            = FSDEV_EP_COUNT * 8 * (IF pma_size = 512 THEN 2 ELSE 1)
       /\ pma_size = 512 => sizeof_fsdev_btable_t(pma_size) = 128
       /\ btable_base % 8 = 0
       /\ btable_base + FSDEV_EP_COUNT * 8 <= pma_size
  /\ cfg = "rejected" =>
       ~(btable_base % 8 = 0 /\ btable_base + FSDEV_EP_COUNT * 8 <= pma_size)

\* the 512-byte device with the table at the last base that fits
C17_Witness ==
  /\ cfg = "accepted"
  /\ pma_size = 512
  /\ btable_base = 448
  /\ sizeof_fsdev_btable_t(pma_size) = 128

\* C18: in every accepted build, the BTABLE register holding the base, the
\* count halfword of every endpoint and direction is at the same place of
\* packet memory through the structure FSDEV_BTABLE as through the word
\* pointers (pcd_ep_tx_cnt_ptr / pcd_ep_rx_cnt_ptr, pma32[] on the 32-bit bus).
C18_ViewsAgree ==
  cfg = "accepted" =>
    \A e \in 0 .. (FSDEV_EP_COUNT - 1) : \A d \in {0, 1} :
      StructCountPlace(bus32, pma_size, btable_base, e, d)
        = PointerCountPlace(bus32, pma_size, BTABLE, e, d)

====
